---- MODULE Spec2Model ----
(***************************************************************************)
(* Control flow of train.py: the main block (model construction, the       *)
(* DataParallel wrap, the try/except around train_model), train_model      *)
(* itself (split, loaders, epoch and batch loops, validation round,        *)
(* checkpoint write) and the checkpoint load path of a later run.          *)
(* Tensor arithmetic is abstracted: a parameter's value is the number of   *)
(* optimizer steps applied to it.                                          *)
(***************************************************************************)
EXTENDS Integers, Sequences, FiniteSets, TLC

VARIABLES
    args,            \* the parsed arguments of this run (fixed after Init)
    pc,              \* position of the main thread
    attempt,         \* number of train_model invocations started
    exc,             \* the exception in flight or that ended the process
    raised,          \* exceptions raised out of train_model, in order
    handler,         \* steps the except clause has executed, in order
    wrapped,         \* model is the DataParallel wrapper (line 320)
    use_ckpt,        \* the UNet runs in gradient-checkpointing mode
    params,          \* UNet parameter name -> value
    n_forward,       \* forward passes started
    n_val, n_train,  \* split sizes of the current invocation
    global_step, epoch,
    b,               \* batches of the current epoch already taken from train_loader
    pbar,            \* images counted by the progress bar in this epoch
    batches,         \* the batches train_loader yields in this epoch, in order
    log,             \* per-batch experiment.log records of this invocation
    n_eval, n_sched, \* evaluate() calls completed / scheduler.step() calls
    val_score, sched_score, last_eval_step,
    n_diag,          \* 1 if the last validation round emitted its diagnostic record, else 0
    images_channels, \* images.shape[1] of the batch taken last
    fail,            \* the failure injected into the batch taken last
    files,           \* checkpoint_epoch{k}.pth, k -> content and write history
    load_result      \* outcome of a later run started with --load

vars == <<args, pc, attempt, exc, raised, handler, wrapped, use_ckpt, params,
          n_forward, n_val, n_train, global_step, epoch, b, pbar,
          batches, log, n_eval, n_sched, val_score, sched_score,
          last_eval_step, n_diag, images_channels, fail, files, load_result>>

----------------------------------------------------------------------------
(* Bounds of the model *)
MaxLen == 4
MaxBatch == 2
MaxEpochs == 2
MaxSeed == 1

(* Program constants *)
ValDivisor == 200
n_channels == 3

ValChoices == {0, 10, 25, 50, 99}
ImageChannels == {1, n_channels}
Scores == {0, 1}
BigLen == 2 * ValDivisor + 1

----------------------------------------------------------------------------
(* Exceptions: the class and whether str(e) contains 'out of memory' *)
NoExc == [cls |-> "none", oom |-> FALSE]
OutOfMemory == [cls |-> "RuntimeError", oom |-> TRUE]
OtherRuntime == [cls |-> "RuntimeError", oom |-> FALSE]
OtherClass == [cls |-> "ValueError", oom |-> FALSE]
OtherClassOomText == [cls |-> "MemoryError", oom |-> TRUE]
HistogramFailure == [cls |-> "TypeError", oom |-> FALSE]

ForwardFailures == {OutOfMemory, OtherRuntime, OtherClass, OtherClassOomText}
FailPoints == {"none", "forward", "hist", "evaluate", "diag_log"}
RoundFailPoints == {"hist", "evaluate", "diag_log"}

IsRuntimeError(e) == e.cls = "RuntimeError"

OomInMessage(e) == e.oom

----------------------------------------------------------------------------
(* Attribute lookup on the object bound to `model' *)
UNetAttrs == {"n_channels", "n_classes", "bilinear", "use_checkpointing",
              "state_dict", "load_state_dict", "parameters",
              "named_parameters", "train", "to"}

DataParallelAttrsDelegating == UNetAttrs \cup {"module"}

DataParallelAttrs == {"module", "state_dict", "load_state_dict", "parameters",
                      "named_parameters", "train", "to"}

HasAttr(isWrapped, name) ==
    IF isWrapped THEN name \in DataParallelAttrs ELSE name \in UNetAttrs

----------------------------------------------------------------------------
(* Parameters and state dicts: a key is the path of module names *)
UNetKeys == {<<"inc", "weight">>, <<"outc", "bias">>}
MaskKey == <<"mask_values">>
mask_values == <<0, 1>>
Pretrained == [k \in UNetKeys |-> 0]

StateDict(isWrapped, p) ==
    IF isWrapped
    THEN [k \in {<<"module">> \o u : u \in UNetKeys} |-> p[Tail(k)]]
    ELSE p

CheckpointContent(isWrapped, p) ==
    LET sd == StateDict(isWrapped, p)
    IN [k \in DOMAIN sd \cup {MaskKey} |->
            IF k = MaskKey THEN mask_values ELSE sd[k]]

\* lines 314-316 on a freshly built, not yet wrapped model
LoadPath(content) ==
    IF MaskKey \notin DOMAIN content
    THEN [status |-> "KeyError", params |-> Pretrained]
    ELSE LET sd == [k \in DOMAIN content \ {MaskKey} |-> content[k]]
         IN IF DOMAIN sd = UNetKeys
            THEN [status |-> "loaded", params |-> sd]
            ELSE [status |-> "key_mismatch", params |-> Pretrained]

----------------------------------------------------------------------------
(* Split and loaders *)
SplitSizesRoundingUp(len, val) ==
    LET nv == (len * val + 99) \div 100
    IN [n_val |-> nv, n_train |-> len - nv]

\* n_val = int(len(dataset) * val_percent), val_percent = args.val / 100
SplitSizes(len, val) ==
    LET nv == (len * val) \div 100
    IN [n_val |-> nv, n_train |-> len - nv]

\* torch.randperm under a seeded generator: one permutation of 1..n
RandPerm(n, seed) == [i \in 1..n |-> ((i - 1 + seed) % n) + 1]

\* random_split(dataset, [n_train, n_val], generator)
RandomSplit(len, nt, nv, seed) ==
    LET perm == RandPerm(len, seed)
    IN [train |-> SubSeq(perm, 1, nt), val |-> SubSeq(perm, nt + 1, nt + nv)]

Reorder(s, seed) ==
    LET perm == RandPerm(Len(s), seed) IN [i \in 1..Len(s) |-> s[perm[i]]]

BatchSamplerKeepLast(s, bs, drop_last) ==
    LET full == Len(s) \div bs
        looped == [i \in 1..full |-> SubSeq(s, (i - 1) * bs + 1, i * bs)]
        rest == SubSeq(s, full * bs + 1, Len(s))
    IN IF Len(rest) > 0 THEN Append(looped, rest) ELSE looped

\* torch BatchSampler: a batch is yielded inside the loop each time it holds
\* bs indices; what is left after the loop is yielded unless drop_last
BatchSampler(s, bs, drop_last) ==
    LET full == Len(s) \div bs
        looped == [i \in 1..full |-> SubSeq(s, (i - 1) * bs + 1, i * bs)]
        rest == SubSeq(s, full * bs + 1, Len(s))
    IN IF Len(rest) > 0 /\ ~drop_last THEN Append(looped, rest) ELSE looped

TrainSet == RandomSplit(args.len, n_train, n_val, args.split_seed).train
ValSet == RandomSplit(args.len, n_train, n_val, args.split_seed).val

\* DataLoader(train_set, shuffle=True, batch_size=...)
TrainLoader(seed) == BatchSampler(Reorder(TrainSet, seed), args.batch_size, FALSE)
\* DataLoader(val_set, shuffle=False, drop_last=True, batch_size=...)
ValLoader == BatchSampler(ValSet, args.batch_size, TRUE)

----------------------------------------------------------------------------
(* Per-batch bookkeeping *)
StepAfterBatchSkipping(gs) == gs + 2

StepAfterBatch(gs) == gs + 1

DivisionStep(nt, bs) == nt \div (ValDivisor * bs)

ValidationDueOffByOne(step, ds) == ds > 0 /\ step % (ds + 1) = 0

ValidationDue(step, ds) == ds > 0 /\ step % ds = 0

ChannelsUnchecked(ch) == TRUE

ChannelsMatch(ch) == ch = n_channels

\* the exception of the failing assert: its message reads model.n_channels
ChannelFailure(isWrapped) ==
    IF HasAttr(isWrapped, "n_channels")
    THEN [cls |-> "AssertionError", oom |-> FALSE]
    ELSE [cls |-> "AttributeError", oom |-> FALSE]

----------------------------------------------------------------------------
SmallConfigs ==
    [len : 0..MaxLen, val : ValChoices, batch_size : 1..MaxBatch,
     epochs : 0..MaxEpochs, save_checkpoint : BOOLEAN, split_seed : 0..MaxSeed]

ScenarioConfigs ==
    [len : {100}, val : {10}, batch_size : {2}, epochs : {1},
     save_checkpoint : {TRUE}, split_seed : {0}]

BigConfigs ==
    [len : {BigLen}, val : {0}, batch_size : 1..MaxBatch, epochs : {MaxEpochs},
     save_checkpoint : {TRUE}, split_seed : {0}]

Configs == SmallConfigs \cup ScenarioConfigs \cup BigConfigs

Init ==
    /\ args \in Configs
    /\ pc = "main"
    /\ attempt = 0
    /\ exc = NoExc
    /\ raised = <<>>
    /\ handler = <<>>
    /\ wrapped = FALSE
    /\ use_ckpt = FALSE
    /\ params = Pretrained
    /\ n_forward = 0
    /\ n_val = 0 /\ n_train = 0
    /\ global_step = 0 /\ epoch = 0 /\ b = 0 /\ pbar = 0
    /\ batches = <<>>
    /\ log = <<>>
    /\ n_eval = 0 /\ n_sched = 0
    /\ val_score = 0 /\ sched_score = 0 /\ last_eval_step = 0
    /\ n_diag = 0
    /\ images_channels = n_channels
    /\ fail = "none"
    /\ files = <<>>
    /\ load_result = [status |-> "none", file |-> 0, params |-> Pretrained]

trainVars == <<n_val, n_train, global_step, epoch, b, pbar, batches, log,
               n_eval, n_sched, val_score, sched_score, last_eval_step, n_diag,
               images_channels, fail>>

\* lines 292-321 with args.load unset: build the model, wrap it
Main_Setup ==
    /\ pc = "main"
    /\ wrapped' = TRUE
    /\ pc' = "call"
    /\ UNCHANGED <<args, attempt, exc, raised, handler, use_ckpt, params,
                   n_forward, files, load_result>>
    /\ UNCHANGED trainVars

\* train_model, lines 41-106
TrainStart ==
    /\ pc = "call"
    /\ attempt' = attempt + 1
    /\ LET sz == SplitSizes(args.len, args.val)
       IN /\ n_val' = sz.n_val
          /\ n_train' = sz.n_train
    /\ global_step' = 0
    /\ epoch' = 1
    /\ b' = 0 /\ pbar' = 0
    /\ log' = <<>>
    /\ n_eval' = 0 /\ n_sched' = 0 /\ last_eval_step' = 0 /\ n_diag' = 0
    /\ pc' = "epoch"
    /\ UNCHANGED <<args, exc, raised, handler, wrapped, use_ckpt, params,
                   n_forward, batches, val_score, sched_score,
                   images_channels, fail, files, load_result>>

\* line 109 and lines 119-122: next epoch, or return from train_model
EpochHead ==
    /\ pc = "epoch"
    /\ IF epoch <= args.epochs
       THEN /\ \E s \in 0..MaxSeed : batches' = TrainLoader(s)
            /\ b' = 0 /\ pbar' = 0
            /\ pc' = "batch"
       ELSE /\ pc' = "exit_ok"
            /\ UNCHANGED <<batches, b, pbar>>
    /\ UNCHANGED <<args, attempt, exc, raised, handler, wrapped, use_ckpt,
                   params, n_forward, n_val, n_train, global_step, epoch, log,
                   n_eval, n_sched, val_score, sched_score, last_eval_step,
                   n_diag, images_channels, fail, files, load_result>>

Raise(e) ==
    /\ pc' = "raised"
    /\ exc' = e
    /\ raised' = Append(raised, e)

\* lines 122-223: one pass through the body of the batch loop
TrainBatch ==
    /\ pc = "batch"
    /\ b < Len(batches)
    /\ \E ch \in ImageChannels, f \in FailPoints, e \in ForwardFailures,
          score \in Scores :
        LET batch == batches[b + 1]
            step == StepAfterBatch(global_step)
            due == ValidationDue(step, DivisionStep(n_train, args.batch_size))
        IN
        /\ f \in RoundFailPoints => due
        /\ ~ChannelsMatch(ch) => f = "none"
        /\ f # "forward" => e = OutOfMemory
        /\ f # "none" => score = 0
        /\ images_channels' = ch
        /\ b' = b + 1
        /\ IF ~ChannelsMatch(ch)
           THEN \* the assert of line 127 fails
                /\ Raise(ChannelFailure(wrapped))
                /\ fail' = "channels"
                /\ UNCHANGED <<params, n_forward, pbar, global_step, log,
                               n_eval, n_sched, val_score, sched_score,
                               last_eval_step, n_diag>>
           ELSE IF f = "forward"
           THEN \* model(images) of line 149 raises
                /\ Raise(e)
                /\ fail' = f
                /\ n_forward' = n_forward + 1
                /\ UNCHANGED <<params, pbar, global_step, log, n_eval, n_sched,
                               val_score, sched_score, last_eval_step, n_diag>>
           ELSE \* lines 149-179
                /\ fail' = f
                /\ n_forward' = n_forward + 1
                /\ params' = [k \in DOMAIN params |-> params[k] + 1]
                /\ pbar' = pbar + Len(batch)
                /\ global_step' = step
                /\ log' = Append(log, [step |-> step, epoch |-> epoch])
                /\ IF ~due
                   THEN /\ UNCHANGED <<pc, exc, raised, n_eval, n_sched,
                                       val_score, sched_score, last_eval_step,
                                       n_diag>>
                   ELSE IF f = "hist"
                   THEN \* lines 185-197, outside the try of line 203
                        /\ Raise(HistogramFailure)
                        /\ UNCHANGED <<n_eval, n_sched, val_score, sched_score,
                                       last_eval_step, n_diag>>
                   ELSE IF f = "evaluate"
                   THEN \* line 199
                        /\ Raise(OutOfMemory)
                        /\ UNCHANGED <<n_eval, n_sched, val_score, sched_score,
                                       last_eval_step, n_diag>>
                   ELSE \* lines 199-223
                        /\ n_eval' = n_eval + 1
                        /\ val_score' = score
                        /\ n_sched' = n_sched + 1
                        /\ sched_score' = score
                        /\ last_eval_step' = step
                        /\ n_diag' = IF f = "diag_log" THEN 0 ELSE 1
                        /\ UNCHANGED <<pc, exc, raised>>
    /\ UNCHANGED <<args, attempt, handler, wrapped, use_ckpt, n_val, n_train,
                   epoch, batches, files, load_result>>

\* lines 225-232: the batch loop is exhausted
EpochEnd ==
    /\ pc = "batch"
    /\ b = Len(batches)
    /\ files' =
         IF args.save_checkpoint
         THEN [k \in DOMAIN files \cup {epoch} |->
                 IF k = epoch
                 THEN [content |-> CheckpointContent(wrapped, params),
                       writes |-> IF k \in DOMAIN files
                                  THEN files[k].writes + 1 ELSE 1,
                       at_epoch |-> epoch,
                       at_seen |-> pbar,
                       at_attempt |-> attempt]
                 ELSE files[k]]
         ELSE files
    /\ epoch' = epoch + 1
    /\ pc' = "epoch"
    /\ UNCHANGED <<args, attempt, exc, raised, handler, wrapped, use_ckpt,
                   params, n_forward, n_val, n_train, global_step, b, pbar,
                   batches, log, n_eval, n_sched, val_score, sched_score,
                   last_eval_step, n_diag, images_channels, fail, load_result>>

\* lines 337-355: train_model raised
ExceptClause ==
    /\ pc = "raised"
    /\ IF attempt = 1 /\ IsRuntimeError(exc)
       THEN IF OomInMessage(exc)
            THEN IF HasAttr(wrapped, "use_checkpointing")
                 THEN /\ handler' = handler \o <<"logging.error", "empty_cache",
                                                 "use_checkpointing", "train_model">>
                      /\ use_ckpt' = TRUE
                      /\ exc' = NoExc
                      /\ pc' = "call"
                 ELSE \* line 345 raises inside the except clause
                      /\ handler' = handler \o <<"logging.error", "empty_cache">>
                      /\ exc' = [cls |-> "AttributeError", oom |-> FALSE]
                      /\ pc' = "error"
                      /\ UNCHANGED use_ckpt
            ELSE \* the except clause ends without re-raising
                 /\ exc' = NoExc
                 /\ pc' = "exit_ok"
                 /\ UNCHANGED <<handler, use_ckpt>>
       ELSE \* not caught: wrong class, or raised by the call of line 346
            /\ pc' = "error"
            /\ UNCHANGED <<exc, handler, use_ckpt>>
    /\ UNCHANGED <<args, attempt, raised, wrapped, params, n_forward, files,
                   load_result>>
    /\ UNCHANGED trainVars

\* lines 302-317 of a later run given --load checkpoint_epoch{k}.pth
LoadCheckpoint ==
    /\ pc \in {"exit_ok", "error"}
    /\ load_result.status = "none"
    /\ \E k \in DOMAIN files :
         LET r == LoadPath(files[k].content)
         IN load_result' = [status |-> r.status, file |-> k, params |-> r.params]
    /\ UNCHANGED <<args, pc, attempt, exc, raised, handler, wrapped, use_ckpt,
                   params, n_forward, files>>
    /\ UNCHANGED trainVars

Next ==
    \/ Main_Setup
    \/ TrainStart
    \/ EpochHead
    \/ TrainBatch
    \/ EpochEnd
    \/ ExceptClause
    \/ LoadCheckpoint

Spec == Init /\ [][Next]_vars

TypeOK ==
    /\ pc \in {"main", "call", "epoch", "batch", "raised", "exit_ok", "error"}
    /\ attempt \in 0..2

----------------------------------------------------------------------------
Range(s) == {s[i] : i \in 1..Len(s)}

Terminated == pc \in {"exit_ok", "error"}

\* train_model is running or has returned, and nothing was raised out of it
Undisturbed == attempt >= 1 /\ pc \in {"epoch", "batch", "exit_ok"} /\ raised = <<>>

(* C1: the process finishes normally only if train_model raised nothing, or
   raised exactly one failure and that one was a RuntimeError whose message
   contains 'out of memory'; every other failure ends the process in error. *)
C1_OnlyOomIsCaught ==
    pc = "exit_ok" =>
        \/ raised = <<>>
        \/ /\ Len(raised) = 1
           /\ IsRuntimeError(raised[1])
           /\ OomInMessage(raised[1])

(* C2: when the first invocation raises an out-of-memory RuntimeError and
   nothing else fails, the process ends normally after the handler logged,
   emptied the cache, enabled checkpointing and called train_model a second
   time, which ran every epoch; train_model is invoked at most twice. *)
C2_OomRetryCompletes ==
    /\ attempt <= 2
    /\ (Terminated /\ raised = <<OutOfMemory>>) =>
          /\ pc = "exit_ok"
          /\ attempt = 2
          /\ use_ckpt
          /\ handler = <<"logging.error", "empty_cache", "use_checkpointing",
                         "train_model">>
          /\ epoch = args.epochs + 1

(* C3: loading a checkpoint written by train_model (mask_values deleted,
   then load_state_dict into the freshly built model) is accepted and gives
   every parameter the value that was saved. *)
C3_CheckpointRoundTrip ==
    load_result.status # "none" =>
        LET saved == files[load_result.file].content
        IN /\ load_result.status = "loaded"
           /\ DOMAIN saved \ {MaskKey} = UNetKeys
           /\ \A u \in UNetKeys : load_result.params[u] = saved[u]

(* C4: with division_step = n_train div (200 * batch_size), after every batch
   that was processed to its end a validation round has run exactly at the
   global steps that are positive multiples of division_step, each with one
   scheduler.step fed the score of that round; none when division_step = 0. *)
C4_ValidationCadence ==
    Undisturbed =>
        LET ds == n_train \div (200 * args.batch_size)
            rounds == IF ds > 0 THEN global_step \div ds ELSE 0
        IN /\ n_eval = rounds
           /\ n_sched = n_eval
           /\ last_eval_step = rounds * ds
           /\ (n_eval > 0 => sched_score = val_score)

C4_Witness ==
    /\ Undisturbed
    /\ n_train \div (200 * args.batch_size) = 2
    /\ global_step = 5
    /\ n_eval = 2
    /\ last_eval_step = 4

(* C5: a checkpoint file for epoch k is written once, at the end of epoch k
   when the progress bar has counted all n_train images, and is never written
   or changed again; with save_checkpoint off no file is written. *)
C5_CheckpointWrittenOnce ==
    /\ [](/\ (~args.save_checkpoint => DOMAIN files = {})
          /\ \A k \in DOMAIN files :
                /\ files[k].writes = 1
                /\ files[k].at_epoch = k
                /\ files[k].at_seen = n_train
                /\ k \in 1..args.epochs
          /\ (args.save_checkpoint /\ attempt >= 1) =>
                \A k \in 1..(epoch - 1) : k \in DOMAIN files)
    /\ [][\A k \in DOMAIN files :
            k \in DOMAIN files' /\ files'[k] = files[k]]_vars

C5_Witness ==
    /\ pc = "error"
    /\ raised = <<OutOfMemory>>
    /\ handler # <<>>
    /\ DOMAIN files = {1}
    /\ epoch = 2

(* C6: a failure while building the histograms or emitting the diagnostic
   record of a validation round does not abort train_model. *)
C6_DiagnosticFailureIgnored ==
    fail \in {"hist", "diag_log"} => (pc \notin {"raised", "error"} /\ exc = NoExc)

(* C7: n_val = floor(len * val / 100), n_train = len - n_val, so the sizes
   add up to len, 0 <= n_val <= len, and the two subsets are disjoint and
   cover the dataset; 100 samples at 10 percent give 10 and 90. *)
C7_SplitSizes ==
    attempt >= 1 =>
        LET train == Range(TrainSet)
            val == Range(ValSet)
        IN
        /\ n_val * 100 <= args.len * args.val
        /\ args.len * args.val < (n_val + 1) * 100
        /\ n_train + n_val = args.len
        /\ 0 <= n_val /\ n_val <= args.len
        /\ train \cap val = {}
        /\ train \cup val = 1..args.len
        /\ Cardinality(train) = n_train
        /\ Cardinality(val) = n_val
        /\ (args.len = 100 /\ args.val = 10) => (n_val = 10 /\ n_train = 90)

C7_Witness ==
    /\ attempt = 1
    /\ args.len = 100 /\ args.val = 10
    /\ n_val = 10 /\ n_train = 90

(* C8: the training loader yields ceil(n_train / batch_size) batches that
   hold every training sample once, all full but possibly the last, of size
   n_train mod batch_size; the validation loader yields
   floor(n_val / batch_size) batches, all full. *)
C8_LoaderBatches ==
    (attempt >= 1 /\ pc = "batch") =>
        LET bs == args.batch_size
            nb == Len(batches)
            vl == ValLoader
        IN /\ nb = (n_train + bs - 1) \div bs
           /\ \A i \in 1..nb :
                Len(batches[i]) = IF i < nb \/ n_train % bs = 0
                                  THEN bs ELSE n_train % bs
           /\ UNION {Range(batches[i]) : i \in 1..nb} = Range(TrainSet)
           /\ Cardinality(Range(TrainSet)) = n_train
           /\ (nb > 0 => (nb - 1) * bs + Len(batches[nb]) = n_train)
           /\ (nb = 0 => n_train = 0)
           /\ Len(vl) = n_val \div bs
           /\ \A i \in 1..Len(vl) : Len(vl[i]) = bs
           /\ (args.len = 100 /\ args.val = 10 /\ bs = 2) =>
                 (nb = 45 /\ Len(vl) = 5)

C8_Witness ==
    /\ pc = "batch"
    /\ n_train % args.batch_size # 0
    /\ n_val % args.batch_size # 0
    /\ b = Len(batches)
    /\ Len(batches) = 2
    /\ Len(batches[2]) = 1
    /\ Len(ValLoader) = 0

(* C9: a batch whose channel count differs from the model's makes
   train_model fail before any forward pass or optimizer step for it; the
   failure is not a RuntimeError, no further invocation starts and the
   process ends in error. *)
C9_ChannelMismatchFatal ==
    /\ [](images_channels # n_channels =>
            /\ pc \in {"raised", "error"}
            /\ fail = "channels"
            /\ ~IsRuntimeError(exc))
    /\ [][ /\ (images_channels = n_channels /\ images_channels' # n_channels) =>
                (/\ params' = params
                 /\ n_forward' = n_forward
                 /\ global_step' = global_step
                 /\ log' = log)
           /\ (images_channels # n_channels) =>
                (/\ attempt' = attempt
                 /\ pc' = "error"
                 /\ params' = params) ]_vars

C9_Witness ==
    /\ pc = "error"
    /\ images_channels # n_channels
    /\ global_step > 0
    /\ attempt = 1
    /\ handler = <<>>

(* C10: global_step starts at 0, grows by one per processed batch and is
   never reset: the k-th per-batch log record carries step k, epochs in the
   log never decrease, every optimizer step is counted, and a completed run
   ends with epochs * ceil(n_train / batch_size). *)
C10_GlobalStep ==
    attempt >= 1 =>
        /\ Len(log) = global_step
        /\ \A k \in 1..Len(log) :
              /\ log[k].step = k
              /\ log[k].epoch \in 1..args.epochs
              /\ (k > 1 => log[k - 1].epoch <= log[k].epoch)
        /\ (attempt = 1 => \A u \in UNetKeys : params[u] = global_step)
        /\ (pc = "epoch" /\ epoch = 1 => global_step = 0)
        /\ (pc = "exit_ok" /\ raised = <<>>) =>
              global_step = args.epochs *
                  ((n_train + args.batch_size - 1) \div args.batch_size)

C10_Witness ==
    /\ pc = "exit_ok"
    /\ raised = <<>>
    /\ args.epochs = 2
    /\ n_train % args.batch_size # 0
    /\ global_step = 4
    /\ log[3].epoch = 2

====
